---- MODULE Spec2Model ----
(***************************************************************************)
(* A model of src/app.py: a Flask application over one SQLAlchemy table    *)
(* (Transaction) in an SQLite file, seeded once from a remote JSON feed,   *)
(* with five read-only GET handlers.                                       *)
(*                                                                         *)
(* Conventions of the model                                                *)
(*  - a text that a LIKE pattern is matched against is a sequence of       *)
(*    one-character strings, so that matching is computed, not assumed;    *)
(*  - a price (an SQLite REAL) is a fixed-point number of tenths: 1005 is  *)
(*    100.5; integer literals of the source are scaled by Units;           *)
(*  - a calendar date is carried by its month (1..12), the only component  *)
(*    a filter of the source reads; 0 in a feed item is a date text that   *)
(*    dateutil cannot parse;                                               *)
(*  - an SQL scalar that may be NULL is <<>> (NULL) or <<v>>;              *)
(*  - request.args is a record of the four parameters, each <<>> (absent)  *)
(*    or <<v>>; page and per_page values are the integers that int()       *)
(*    yields for their numerals.                                           *)
(***************************************************************************)
EXTENDS Integers, Sequences, FiniteSets

\* Longest remote feed considered.
MaxFeed == 2
\* Largest page number a request asks for.
MaxPage == 2

\* request.args.get('page', 1) and request.args.get('per_page', 10)
DefaultPage == 1
DefaultPerPage == 10

VARIABLES
    feed,               \* the JSON array the remote endpoint serves
    table,              \* committed rows of the Transaction table (SQLite file)
    session,            \* db.session: rows added and not yet committed
    data,               \* seed_data's local `data`: <<>> before the fetch, <<feed>> after
    got_first_request,  \* Flask's flag: the before_first_request hooks have completed
    pc,                 \* where the process is: idle, setup, seed_data, dispatch
    req,                \* the request last handled: [path, args]
    resp                \* the response to it: [status, body, queries, by]; by is
                        \* "view", or the call of seed_data that raised

vars == <<feed, table, session, data, got_first_request, pc, req, resp>>

----------------------------------------------------------------------------
(* Helpers *)

Min(a, b) == IF a < b THEN a ELSE b
Max(a, b) == IF a < b THEN b ELSE a

\* An integer literal of the source as a price of the model (tenths).
Units(n) == n * 10

SeqsUpTo(S, n) == UNION {[1..k -> S] : k \in 0..n}

\* The sequence f(s[1]), ..., f(s[Len(s)]).
RECURSIVE MapSeq(_, _)
MapSeq(f(_), s) == IF s = <<>> THEN <<>> ELSE <<f(Head(s))>> \o MapSeq(f, Tail(s))

RECURSIVE SumSeq(_)
SumSeq(s) == IF s = <<>> THEN 0 ELSE Head(s) + SumSeq(Tail(s))

\* request.args.get(k, default)
Get(args, k, default) == IF args[k] = <<>> THEN default ELSE args[k][1]

\* The sets of request.args built from the values each parameter may take,
\* the request without the parameter included.
Opt(S) == {<<>>} \cup {<<v>> : v \in S}
ArgsOf(months, searches, pages, perpages) ==
    [month : Opt(months), search : Opt(searches), page : Opt(pages), per_page : Opt(perpages)]
NoArgs == [month |-> <<>>, search |-> <<>>, page |-> <<>>, per_page |-> <<>>]

----------------------------------------------------------------------------
(* The Transaction model and the seed feed *)

\* Transaction(title=..., description=..., price=..., category=..., dateOfSale=parse(...).date())
NewTransaction(item) ==
    [title |-> item.title, description |-> item.description, price |-> item.price,
     category |-> item.category, dateOfSale |-> item.dateOfSale]

\* The primary key the table assigns on insert: the next integer.
RECURSIVE WithIds(_, _)
WithIds(rows, added) ==
    IF added = <<>> THEN rows
    ELSE WithIds(Append(rows,
                        [id |-> Len(rows) + 1,
                         title |-> Head(added).title,
                         description |-> Head(added).description,
                         price |-> Head(added).price,
                         category |-> Head(added).category,
                         dateOfSale |-> Head(added).dateOfSale]),
                 Tail(added))

\* The listing's JSON object for a row.
Serialize(rows) ==
    MapSeq(LAMBDA t : [title |-> t.title, description |-> t.description,
                       price |-> t.price, category |-> t.category,
                       dateOfSale |-> t.dateOfSale],
           rows)

----------------------------------------------------------------------------
(* datetime.datetime.strptime(month, '%B').month *)

MonthNames ==
    <<"January", "February", "March", "April", "May", "June", "July",
      "August", "September", "October", "November", "December">>
\* strptime matches names ignoring case; the lower-case spellings stand for that.
MonthNamesLower ==
    <<"january", "february", "march", "april", "may", "june", "july",
      "august", "september", "october", "november", "december">>

\* The month number, or 0 where strptime raises ValueError.
strptime_B(name) ==
    IF \E k \in DOMAIN MonthNames : name \in {MonthNames[k], MonthNamesLower[k]}
    THEN CHOOSE k \in DOMAIN MonthNames : name \in {MonthNames[k], MonthNamesLower[k]}
    ELSE 0

\* extract('month', Transaction.dateOfSale) == month_num
InMonth(rows, month_num) == SelectSeq(rows, LAMBDA r : r.dateOfSale = month_num)

----------------------------------------------------------------------------
(* SQLite's LIKE *)

UpperCase == <<"A","B","C","D","E","F","G","H","I","J","K","L","M",
               "N","O","P","Q","R","S","T","U","V","W","X","Y","Z">>
LowerCase == <<"a","b","c","d","e","f","g","h","i","j","k","l","m",
               "n","o","p","q","r","s","t","u","v","w","x","y","z">>
Lower(c) ==
    IF \E k \in DOMAIN UpperCase : UpperCase[k] = c
    THEN LowerCase[CHOOSE k \in DOMAIN UpperCase : UpperCase[k] = c]
    ELSE c

\* text LIKE pattern: % is any run of characters, _ any one character, and
\* ASCII letters match ignoring case.
RECURSIVE Like(_, _)
Like(text, pattern) ==
    IF pattern = <<>> THEN text = <<>>
    ELSE IF Head(pattern) = "%"
         THEN Like(text, Tail(pattern)) \/ (text # <<>> /\ Like(Tail(text), pattern))
         ELSE /\ text # <<>>
              /\ (Head(pattern) = "_" \/ Lower(Head(text)) = Lower(Head(pattern)))
              /\ Like(Tail(text), Tail(pattern))

DigitChars == <<"0","1","2","3","4","5","6","7","8","9">>
RECURSIVE Digits(_)
Digits(n) == IF n < 10 THEN <<DigitChars[n + 1]>>
             ELSE Digits(n \div 10) \o <<DigitChars[(n % 10) + 1]>>
\* The text SQLite compares when a REAL column is the left side of LIKE: 150.0, 100.5
PriceText(p) == Digits(p \div 10) \o <<".">> \o Digits(p % 10)

----------------------------------------------------------------------------
(* Responses *)

Ok(body, queries) == [status |-> 200, body |-> body, queries |-> queries]
\* jsonify({'error': 'Month is required'}), 400
MonthRequired == [status |-> 400, body |-> [error |-> "Month is required"], queries |-> 0]
\* An exception that leaves a view function: Flask answers 500.
ServerError == [status |-> 500, body |-> [error |-> "Internal Server Error"], queries |-> 0]
By(r, who) == [status |-> r.status, body |-> r.body, queries |-> r.queries, by |-> who]
NoResponse == [status |-> 0, body |-> <<>>, queries |-> 0, by |-> ""]
NoRequest == [path |-> "", args |-> NoArgs]

----------------------------------------------------------------------------
(* Flask-SQLAlchemy's query.paginate(page, per_page, False).items *)

\* Mutant of paginate: OFFSET page * per_page, the first page skipped.
paginate_offset_by_page(q, page, per_page) ==
    LET p == IF page < 1 THEN 1 ELSE page
        n == IF per_page < 0 THEN 20 ELSE per_page
        offset == p * n
    IN SubSeq(q, offset + 1, Min(offset + n, Len(q)))

\* error_out is False: a page below 1 becomes 1, a negative per_page becomes 20;
\* the items are LIMIT per_page OFFSET (page - 1) * per_page of the query.
paginate(q, page, per_page) ==
    LET p == IF page < 1 THEN 1 ELSE page
        n == IF per_page < 0 THEN 20 ELSE per_page
        offset == (p - 1) * n
    IN SubSeq(q, offset + 1, Min(offset + n, Len(q)))

----------------------------------------------------------------------------
(* The view functions, as functions of the table and of request.args *)

\* title LIKE s OR description LIKE s OR price LIKE s, with s = f"%{search}%"
SearchFilter(q, search) ==
    LET s == <<"%">> \o search \o <<"%">>
    IN SelectSeq(q, LAMBDA r : \/ Like(r.title, s)
                               \/ Like(r.description, s)
                               \/ Like(PriceText(r.price), s))

get_transactions(rows, args) ==
    LET search == Get(args, "search", <<>>)
        page == Get(args, "page", DefaultPage)
        per_page == Get(args, "per_page", DefaultPerPage)
        month == Get(args, "month", "")
    IN IF month # "" /\ strptime_B(month) = 0 THEN ServerError
       ELSE LET q1 == IF month # "" THEN InMonth(rows, strptime_B(month)) ELSE rows
                q2 == IF search # <<>> THEN SearchFilter(q1, search) ELSE q1
            IN Ok(Serialize(paginate(q2, page, per_page)), 1)

\* func.sum(Transaction.price) ... .scalar(): SUM over no row is NULL.
SumPrice(q) == IF q = <<>> THEN <<>> ELSE <<SumSeq(MapSeq(LAMBDA t : t.price, q))>>

get_statistics(rows, args) ==
    LET month == Get(args, "month", "")
    IN IF month = "" THEN MonthRequired
       ELSE IF strptime_B(month) = 0 THEN ServerError
       ELSE LET q == InMonth(rows, strptime_B(month))
            IN Ok([total_sales |-> SumPrice(q),
                   total_items |-> Len(q),
                   not_sold_items |-> Len(SelectSeq(q, LAMBDA r : r.price = 0))], 3)

\* (start, end) pairs; the end of the last range, float('inf'), is <<>>.
ranges ==
    << <<0, <<100>>>>, <<101, <<200>>>>, <<201, <<300>>>>, <<301, <<400>>>>,
       <<401, <<500>>>>, <<501, <<600>>>>, <<601, <<700>>>>, <<701, <<800>>>>,
       <<801, <<900>>>>, <<901, <<>>>> >>

\* Transaction.price >= start, Transaction.price < end
InRange(price, start, end) ==
    /\ price >= Units(start)
    /\ (end = <<>> \/ price < Units(end[1]))

\* The label f'{start}-{end or "above"}' is the pair <<start, end>>.
get_bar_chart(rows, args) ==
    LET month == Get(args, "month", "")
    IN IF month = "" THEN MonthRequired
       ELSE IF strptime_B(month) = 0 THEN ServerError
       ELSE LET q == InMonth(rows, strptime_B(month))
            IN Ok(MapSeq(LAMBDA range :
                             [range |-> range,
                              count |-> Len(SelectSeq(q, LAMBDA r :
                                            InRange(r.price, range[1], range[2])))],
                         ranges),
                  Len(ranges))

\* GROUP BY category: one (category, count) per category among the rows q, in
\* the order `ord` (SQL leaves the order of the groups open).
\* Mutant of GroupCount: every category gets an entry, a count of 0 included.
GroupCount_zero_filled(q, ord) ==
    MapSeq(LAMBDA c : [category |-> c,
                       count |-> Len(SelectSeq(q, LAMBDA r : r.category = c))],
           ord)

GroupCount(q, ord) ==
    LET present == SelectSeq(ord, LAMBDA c : \E k \in DOMAIN q : q[k].category = c)
    IN MapSeq(LAMBDA c : [category |-> c,
                          count |-> Len(SelectSeq(q, LAMBDA r : r.category = c))],
              present)

get_pie_chart(rows, args, ord) ==
    LET month == Get(args, "month", "")
    IN IF month = "" THEN MonthRequired
       ELSE IF strptime_B(month) = 0 THEN ServerError
       ELSE Ok(GroupCount(InMonth(rows, strptime_B(month)), ord), 1)

\* get_transactions() inside get_combined_data reads the same request.args.
\* Mutant of CombinedTransactions: the listing is asked for with the month alone.
CombinedTransactions_month_only(rows, args) ==
    get_transactions(rows, [NoArgs EXCEPT !.month = args.month])

CombinedTransactions(rows, args) == get_transactions(rows, args)

\* Mutant of get_combined_data: the check of month is left to the four views.
get_combined_data_unchecked(rows, args, ord) ==
    LET t == CombinedTransactions(rows, args)
        s == get_statistics(rows, args)
        b == get_bar_chart(rows, args)
        p == get_pie_chart(rows, args, ord)
    IN IF t.status = 500 THEN ServerError
       ELSE Ok([transactions |-> t.body, statistics |-> s.body,
                bar_chart |-> b.body, pie_chart |-> p.body],
               t.queries + s.queries + b.queries + p.queries)

get_combined_data(rows, args, ord) ==
    LET month == Get(args, "month", "")
        t == CombinedTransactions(rows, args)
        s == get_statistics(rows, args)
        b == get_bar_chart(rows, args)
        p == get_pie_chart(rows, args, ord)
    IN IF month = "" THEN MonthRequired
       ELSE IF t.status = 500 THEN ServerError
       ELSE Ok([transactions |-> t.body, statistics |-> s.body,
                bar_chart |-> b.body, pie_chart |-> p.body],
               t.queries + s.queries + b.queries + p.queries)

----------------------------------------------------------------------------
(* Inputs: the remote feed and the requests *)

Categories == {"electronics", "clothing"}
\* The orders in which GROUP BY may return the categories.
CategoryOrders == {o \in [1..Cardinality(Categories) -> Categories] :
                      \A i, j \in DOMAIN o : i # j => o[i] # o[j]}

Item(t, d, p, c, m) ==
    [title |-> t, description |-> d, price |-> p, category |-> c, dateOfSale |-> m]

\* Feed items for the seeding and error-handling claims: sold and unsold
\* items of two months, and items whose date text cannot be parsed (0).
BaseItems ==
    {Item(<<"b">>, <<"a">>, p, "electronics", m) : p \in {0, 1500}, m \in {0, 1, 3}}
\* Feed items for the aggregation claims: prices 0, 100.0, 100.5, 150.0 and
\* 999.0, two categories, two months.
AggItems ==
    {Item(<<"b">>, <<"a">>, p, c, m) :
        p \in {0, 1000, 1005, 1500, 9990}, c \in Categories, m \in {1, 3}}
\* Feed items for the listing claims: titles and descriptions over a, A, b, c, _.
ListItems ==
    {Item(t, d, 1500, "electronics", m) :
        t \in {<<"b">>, <<"c">>}, d \in {<<"a">>, <<"b", "A">>, <<"_">>}, m \in {1, 3}}

\* Requests that vary the month only: absent, empty, two spellings of a month
\* name, and a word that is no month name.
BaseArgs == ArgsOf({"", "March", "march", "Foo"}, {}, {}, {})
\* Requests of the aggregation claims: a month with rows, and months that may have none.
AggArgs == ArgsOf({"March", "January", "December"}, {}, {}, {}) \ {NoArgs}
\* Requests of the listing claims.
ListArgs == ArgsOf({"March"}, {<<"a">>, <<"_">>}, 0..MaxPage, {1, 2})

----------------------------------------------------------------------------
(* The process *)

TypeOK ==
    /\ Len(feed) <= MaxFeed
    /\ \A k \in DOMAIN feed : feed[k] \in BaseItems \cup AggItems \cup ListItems
    /\ Len(table) <= Len(feed)
    /\ Len(session) <= Len(feed)
    /\ data \in {<<>>, <<feed>>}
    /\ got_first_request \in BOOLEAN
    /\ pc \in {"idle", "setup", "seed_data", "dispatch"}

\* A fresh deployment: no SQLite file yet, no request served.
InitWith(items) ==
    /\ feed \in SeqsUpTo(items, MaxFeed)
    /\ table = <<>>
    /\ session = <<>>
    /\ data = <<>>
    /\ got_first_request = FALSE
    /\ pc = "idle"
    /\ req = NoRequest
    /\ resp = NoResponse

Init == InitWith(BaseItems)

\* A request arrives. Flask runs the before_first_request hooks, under a lock
\* that every other request waits for, until they have once completed.
Arrive ==
    /\ pc = "idle"
    /\ pc' = IF got_first_request THEN "dispatch" ELSE "setup"
    /\ req' = NoRequest
    /\ resp' = NoResponse
    /\ UNCHANGED <<feed, table, session, data, got_first_request>>

\* Mutant of setup: seed_data() without the look at the table.
setup_always_seeds ==
    /\ pc = "setup"
    /\ pc' = "seed_data"
    /\ UNCHANGED <<feed, table, session, data, got_first_request, req, resp>>

\* setup(): db.create_all(); if not Transaction.query.first(): seed_data()
setup ==
    /\ pc = "setup"
    /\ IF table = <<>>
       THEN pc' = "seed_data" /\ UNCHANGED got_first_request
       ELSE pc' = "dispatch" /\ got_first_request' = TRUE
    /\ UNCHANGED <<feed, table, session, data, req, resp>>

\* An exception leaves setup(): the request is answered 500, the hooks have
\* not completed, and the teardown of the request removes the session.
SetupRaises(call) ==
    /\ pc' = "idle"
    /\ resp' = By(ServerError, call)
    /\ session' = <<>>
    /\ data' = <<>>
    /\ UNCHANGED <<feed, table, got_first_request, req>>

\* seed_data(): response = requests.get(...); data = response.json()
seed_data_get ==
    /\ pc = "seed_data"
    /\ data = <<>>
    /\ \/ /\ data' = <<feed>>
          /\ UNCHANGED <<feed, table, session, got_first_request, pc, req, resp>>
       \/ SetupRaises("requests.get")

\* Mutant of seed_data_add: db.session.commit() inside the loop, after each add.
seed_data_add_commits_each ==
    /\ pc = "seed_data"
    /\ data # <<>>
    /\ Len(table) < Len(data[1])
    /\ LET item == data[1][Len(table) + 1]
       IN IF item.dateOfSale = 0
          THEN SetupRaises("parser.parse")
          ELSE /\ table' = WithIds(table, <<NewTransaction(item)>>)
               /\ session' = Append(session, NewTransaction(item))
               /\ UNCHANGED <<feed, data, got_first_request, pc, req, resp>>

\* seed_data(): one turn of the loop: parse the date, db.session.add(transaction)
seed_data_add ==
    /\ pc = "seed_data"
    /\ data # <<>>
    /\ Len(session) < Len(data[1])
    /\ LET item == data[1][Len(session) + 1]
       IN IF item.dateOfSale = 0
          THEN SetupRaises("parser.parse")
          ELSE /\ session' = Append(session, NewTransaction(item))
               /\ UNCHANGED <<feed, table, data, got_first_request, pc, req, resp>>

\* seed_data(): db.session.commit() after the loop; setup() returns.
seed_data_commit ==
    /\ pc = "seed_data"
    /\ data # <<>>
    /\ Len(session) = Len(data[1])
    /\ table' = WithIds(table, session)
    /\ session' = <<>>
    /\ data' = <<>>
    /\ got_first_request' = TRUE
    /\ pc' = "dispatch"
    /\ UNCHANGED <<feed, req, resp>>

\* A view function has answered: the request and its response are recorded.
Answer(path, args, r) ==
    /\ pc' = "idle"
    /\ req' = [path |-> path, args |-> args]
    /\ resp' = By(r, "view")
    /\ UNCHANGED <<feed, table, session, data, got_first_request>>

GET_transactions(A) ==
    /\ pc = "dispatch"
    /\ \E args \in A : Answer("/transactions", args, get_transactions(table, args))
GET_statistics(A) ==
    /\ pc = "dispatch"
    /\ \E args \in A : Answer("/statistics", args, get_statistics(table, args))
GET_bar_chart(A) ==
    /\ pc = "dispatch"
    /\ \E args \in A : Answer("/bar_chart", args, get_bar_chart(table, args))
GET_pie_chart(A) ==
    /\ pc = "dispatch"
    /\ \E args \in A, ord \in CategoryOrders :
          Answer("/pie_chart", args, get_pie_chart(table, args, ord))
GET_combined_data(A) ==
    /\ pc = "dispatch"
    /\ \E args \in A, ord \in CategoryOrders :
          Answer("/combined_data", args, get_combined_data(table, args, ord))

\* The process stops (at any point) and is started again: the SQLite file stays.
Restart ==
    /\ pc' = "idle"
    /\ got_first_request' = FALSE
    /\ session' = <<>>
    /\ data' = <<>>
    /\ req' = NoRequest
    /\ resp' = NoResponse
    /\ UNCHANGED <<feed, table>>

Startup == Arrive \/ setup \/ seed_data_get \/ seed_data_add \/ seed_data_commit \/ Restart

Next ==
    \/ Startup
    \/ GET_combined_data(BaseArgs)
    \/ GET_transactions(BaseArgs)
    \/ GET_statistics(BaseArgs)
    \/ GET_bar_chart(BaseArgs)
    \/ GET_pie_chart(BaseArgs)

Spec == Init /\ [][Next]_vars

\* The aggregation endpoints over feeds that vary price, category and month.
InitAgg == InitWith(AggItems)
NextAgg ==
    \/ Startup
    \/ GET_combined_data(AggArgs)
    \/ GET_statistics(AggArgs)
    \/ GET_bar_chart(AggArgs)
    \/ GET_pie_chart(AggArgs)
SpecAgg == InitAgg /\ [][NextAgg]_vars

\* The listing over feeds that vary title, description and month.
InitList == InitWith(ListItems)
NextList ==
    \/ Startup
    \/ GET_combined_data(ListArgs)
    \/ GET_transactions(ListArgs)
SpecList == InitList /\ [][NextList]_vars

----------------------------------------------------------------------------
(* Properties.  They are stated over the table and the last answered        *)
(* request, with the filters written out over row indices.                  *)

\* A view function has answered the request req with resp.
Answered(path) == pc = "idle" /\ resp.by = "view" /\ req.path = path

MonthEndpoints == {"/statistics", "/bar_chart", "/pie_chart", "/combined_data"}

ReqMonth == Get(req.args, "month", "")
RecognizedMonth(m) == \E k \in 1..12 : m \in {MonthNames[k], MonthNamesLower[k]}
MonthNumber(m) == CHOOSE k \in 1..12 : m \in {MonthNames[k], MonthNamesLower[k]}

\* The rows (by index) whose dateOfSale is in the month the request names.
MonthIdx == {i \in DOMAIN table : table[i].dateOfSale = MonthNumber(ReqMonth)}

Counts(entries) == SumSeq([k \in DOMAIN entries |-> entries[k].count])

\* C1: for every table and valid month, the counts of the ten /bar_chart
\* buckets sum to the number of rows of that month, which is the total_items
\* of /statistics (both are parts of one /combined_data answer).
C1_BarChartCountsSumToTotal ==
    /\ (Answered("/bar_chart") /\ resp.status = 200)
          => Counts(resp.body) = Cardinality(MonthIdx)
    /\ (Answered("/combined_data") /\ resp.status = 200)
          => Counts(resp.body.bar_chart) = resp.body.statistics.total_items

\* C2: on the four month endpoints a month that is present and is no month
\* name is answered like a missing month: status 400 and the error body.
C2_UnrecognizedMonthIsClientError ==
    \A path \in MonthEndpoints :
        (Answered(path) /\ ReqMonth # "" /\ ~RecognizedMonth(ReqMonth))
            => (resp.status = 400 /\ resp.body = [error |-> "Month is required"])

\* C3: on the four month endpoints a request without month, or with an empty
\* one, is answered 400 with the error body, whatever the table holds, and
\* the view function has issued no query.
C3_MissingMonthIs400 ==
    \A path \in MonthEndpoints :
        (Answered(path) /\ ReqMonth = "")
            => /\ resp.status = 400
               /\ resp.body = [error |-> "Month is required"]
               /\ resp.queries = 0
C3_Witness ==
    /\ Answered("/combined_data")
    /\ req.args.month = <<"">>
    /\ table # <<>>
    /\ resp.status = 400

\* The rows (by index) the listing filter of the request keeps: the month
\* filter when month is given, and the LIKE on title, description or price
\* when search is given.
RequestFilters(args) ==
    LET month == Get(args, "month", "")
        search == Get(args, "search", <<>>)
        s == <<"%">> \o search \o <<"%">>
    IN {i \in DOMAIN table :
           /\ (month = "" \/ table[i].dateOfSale = MonthNumber(month))
           /\ (search = <<>> \/ Like(table[i].title, s) \/ Like(table[i].description, s)
                             \/ Like(PriceText(table[i].price), s))}

\* The rows of I, in table order, from the one of rank `first` + 1, at most n
\* of them, as listing objects.
Slice(I, first, n) ==
    LET chosen == {i \in I : /\ Cardinality({j \in I : j <= i}) > first
                             /\ Cardinality({j \in I : j <= i}) <= first + n}
        at(k) == CHOOSE i \in chosen : Cardinality({j \in chosen : j <= i}) = k
    IN [k \in 1..Cardinality(chosen) |->
           [title |-> table[at(k)].title, description |-> table[at(k)].description,
            price |-> table[at(k)].price, category |-> table[at(k)].category,
            dateOfSale |-> table[at(k)].dateOfSale]]

ReqPage == Get(req.args, "page", DefaultPage)
ReqPerPage == Get(req.args, "per_page", DefaultPerPage)

C5_PageSize ==
    (Answered("/transactions") /\ ReqPage >= 1 /\ ReqPerPage >= 1)
        => LET M == Cardinality(RequestFilters(req.args))
               N == ReqPerPage
           IN /\ resp.status = 200
              /\ Len(resp.body) = Min(N, Max(0, M - (ReqPage - 1) * N))
              /\ ((ReqPage - 1) * N >= M => resp.body = <<>>)
C5_Witness ==
    /\ Answered("/transactions")
    /\ ReqPage = 2 /\ ReqPerPage = 1
    /\ Cardinality(RequestFilters(req.args)) = 1
    /\ Len(table) > 1
    /\ resp.status = 200 /\ resp.body = <<>>

\* C6: setup() on a table that holds a row does not call seed_data() and
\* leaves the table as it is; no step adds rows to a table that holds some,
\* so the table holds no row or as many as one feed.
C6_SeedOnlyWhenEmpty ==
    [][ /\ (pc = "setup" /\ table # <<>>)
            => (pc' # "seed_data" /\ table' = table /\ data' = <<>> /\ session' = <<>>)
        /\ (table # <<>> => table' = table)
        /\ Len(table') \in {0, Len(feed)} ]_vars
C6_Witness ==
    /\ pc = "setup"
    /\ ~got_first_request
    /\ Len(table) = MaxFeed

\* C7: total_sales of /statistics is the numeric sum of price over the rows
\* of the month, the number 0 when no row is of that month.
C7_TotalSalesIsSum ==
    (Answered("/statistics") /\ resp.status = 200)
        => resp.body.total_sales =
              <<SumSeq([i \in DOMAIN table |->
                           IF i \in MonthIdx THEN table[i].price ELSE 0])>>

\* One entry per category among the rows of the month, none for any other
\* category, with counts that sum to `total`.
PieOK(entries, total) ==
    LET cats == {table[i].category : i \in MonthIdx}
    IN /\ {entries[k].category : k \in DOMAIN entries} = cats
       /\ Len(entries) = Cardinality(cats)
       /\ Counts(entries) = total

\* C8: /pie_chart has exactly one entry per category that occurs among the
\* rows of the month, and its counts sum to the total_items of /statistics.
C8_PieChartPartition ==
    /\ (Answered("/pie_chart") /\ resp.status = 200)
          => PieOK(resp.body, Cardinality(MonthIdx))
    /\ (Answered("/combined_data") /\ resp.status = 200)
          => PieOK(resp.body.pie_chart, resp.body.statistics.total_items)
C8_Witness ==
    /\ Answered("/pie_chart")
    /\ resp.status = 200
    /\ Len(resp.body) = 1
    /\ \E i \in DOMAIN table : table[i].category # resp.body[1].category

\* s occurs in text as a substring, literally and ignoring ASCII case.
Occurs(s, text) ==
    \E a \in 0..(Len(text) - Len(s)) : SubSeq(text, a + 1, a + Len(s)) = s
Lowered(text) == [k \in DOMAIN text |-> Lower(text[k])]
OccursCI(s, text) == Occurs(Lowered(s), Lowered(text))

\* s occurs in the description of row i and, even ignoring case, in no other
\* description, no title and no price.
OnlyInDescriptionOf(i, s) ==
    /\ Occurs(s, table[i].description)
    /\ \A j \in DOMAIN table :
          /\ j # i => ~OccursCI(s, table[j].description)
          /\ ~OccursCI(s, table[j].title)
          /\ ~OccursCI(s, PriceText(table[j].price))

\* C9: a search that occurs in the description of exactly one row, and in no
\* title or price, lists exactly that row (the result not cut by paging),
\* whatever its title; with month given too, only if the row is of that month.
C9_SearchByDescription ==
    (/\ Answered("/transactions") /\ resp.status = 200
     /\ Get(req.args, "search", <<>>) # <<>>
     /\ ReqPage = 1 /\ ReqPerPage >= Len(table))
        => \A i \in DOMAIN table :
              OnlyInDescriptionOf(i, req.args.search[1])
                  => resp.body = IF ReqMonth = "" \/ i \in MonthIdx
                                 THEN Slice({i}, 0, 1) ELSE <<>>

\* C10: the table readers see holds no row or the whole feed, in every state:
\* during seeding, after a seed run that failed part-way, after a restart.
C10_SeedAllOrNothing ==
    \/ table = <<>>
    \/ /\ Len(table) = Len(feed)
       /\ \A k \in DOMAIN table :
             table[k] = [id |-> k,
                         title |-> feed[k].title, description |-> feed[k].description,
                         price |-> feed[k].price, category |-> feed[k].category,
                         dateOfSale |-> feed[k].dateOfSale]
C10_Witness ==
    /\ pc = "idle"
    /\ resp.by = "parser.parse"
    /\ resp.status = 500
    /\ feed[1].dateOfSale # 0
    /\ table = <<>>

====
